---- MODULE Spec2Model ----
(***************************************************************************)
(* Model of webui/run.py: the bootstrap sequence of main() with its        *)
(* helpers check_dependencies, install_dependencies, find_app_file and     *)
(* check_port_availability, and the daemon browser-opener thread.          *)
(* External calls (imports, input, pip, sockets, the loaded module, the    *)
(* server's run) are the environment: their outcome is chosen by \E at the *)
(* step that performs them.                                                *)
(***************************************************************************)
EXTENDS Integers, Sequences, FiniteSets, TLC

VARIABLES
    pc,               \* position of the main thread
    fs,               \* names of the files present in the directory of run.py
    trace,            \* steps of main performed so far, in order
    console,          \* messages printed so far
    outcome,          \* how the run ended ("running" until then)
    exc,              \* exception raised in main: kind, step, handler
    depIdx,           \* check_dependencies: index of the package being imported
    missing_packages, \* check_dependencies: local list
    importLog,        \* check_dependencies: outcome of each __import__ so far
    depsOk,           \* value returned by check_dependencies
    answer,           \* line read by input()
    installOutcome,   \* what happened inside install_dependencies
    installResult,    \* value returned by install_dependencies
    subprocessCalls,  \* number of subprocess.check_call invocations
    probeOutcome,     \* outcome of "from model import ..."
    model_available,  \* local of main
    ret,              \* caller of find_app_file
    findIdx,          \* find_app_file: index in possible_paths
    checked,          \* find_app_file: paths whose exists() was evaluated
    app_file,         \* local of main
    findResults,      \* values returned to the repeated caller
    port,             \* local of main
    altIdx,           \* index in the fallback port list
    probed,           \* check_port_availability calls: port, socket outcome, result
    portTaken,        \* another process bound the selected port after its probe
    app,              \* local of main: getattr(app_module, 'app', None)
    browser,          \* state of the browser-opener thread
    browserUrl,       \* URL handed to webbrowser.open
    runCalls          \* keyword arguments of each app.run call

vars == <<pc, fs, trace, console, outcome, exc, depIdx, missing_packages,
          importLog, portTaken, depsOk, answer, installOutcome, installResult, subprocessCalls,
          probeOutcome, model_available, ret, findIdx, checked, app_file,
          findResults, port, altIdx, probed, app, browser, browserUrl,
          runCalls>>

depVars     == <<depIdx, missing_packages, importLog, depsOk>>
installVars == <<installOutcome, installResult, subprocessCalls>>
probeVars   == <<probeOutcome, model_available>>
findVars    == <<ret, findIdx, checked, app_file, findResults>>
portVars    == <<port, altIdx, probed, portTaken>>
launchVars  == <<app, browserUrl, runCalls>>

\* ------------------------------------------------------------------ bounds
MaxCalls == 3

\* --------------------------------------------------------------- constants
DefaultPort == 7070

alt_ports_swapped == <<7072, 7071, 7073>>

alt_ports_extended == <<7071, 7072, 7073, 7074>>

alt_ports == <<7071, 7072, 7073>>

required_packages == <<"flask", "flask_cors", "pandas", "numpy", "plotly">>

possible_paths_reversed == <<"main.py", "application.py", "app.py">>

possible_paths == <<"app.py", "application.py", "main.py">>

Manifest == "requirements.txt"

Files == {"app.py", "application.py", "main.py", "requirements.txt"}

\* lines the operator may type at the prompt, as sequences of characters
Answers == {<<"y">>, <<"Y">>, <<"n">>, <<>>, <<"y", "e", "s">>}

ImportOutcomes == {"ok", "ImportError", "OtherError"}
PipOutcomes    == {"exit0", "nonzero", "exec_error"}
ConnOutcomes   == {"connected", "refused", "timeout", "socket_error"}
ModuleShapes   == {"has_app", "no_attr", "app_is_none"}
RunFailures    == {"bind_failed", "server_fault"}
\* exception classes the loaded module or the server can raise, besides a
\* user interrupt: subclasses of Exception, and SystemExit (sys.exit)
RaisedKinds    == {"Exception", "SystemExit"}
BrowserOutcomes == {"ok", "raises"}

NoExc == [kind |-> "none", at |-> "none", handler |-> "none"]

\* ----------------------------------------------------------------- helpers
InTrace(s) == \E i \in DOMAIN trace : trace[i] = s

Last(s) == s[Len(s)]

LowerChar(c) ==
    CASE c = "Y" -> "y"
      [] c = "N" -> "n"
      [] c = "E" -> "e"
      [] c = "S" -> "s"
      [] OTHER   -> c

Lower(s) == [i \in DOMAIN s |-> LowerChar(s[i])]

\* input().lower().startswith('y')
AcceptsInstallPrefix(a) == a # <<>> /\ Lower(a)[1] = "y"

\* input().lower() == 'y'
AcceptsInstall(a) == Lower(a) = <<"y">>

\* the existence test left out
ManifestExistsUnchecked(f) == TRUE

\* requirements_path.exists()
ManifestExists(f) == Manifest \in f

\* path.exists()
PathExists(p, f) == p \in f

\* the exit status of pip ignored
PipResultIgnoresStatus(o) == IF o = "exec_error" THEN "False" ELSE "True"

\* value install_dependencies returns for each way pip can end
PipResult(o) == IF o = "exit0" THEN "True" ELSE "False"

PipMessage(o) ==
    CASE o = "exit0"      -> "install_done"
      [] o = "nonzero"    -> "install_failed"
      [] o = "exec_error" -> "install_error"

\* the result of install_dependencies ignored
ContinuesAfterInstallAlways(r) == TRUE

\* "if not install_dependencies(): return"
ContinuesAfterInstall(r) == r = "True"

\* "except ImportError" around the import of the model library
ProbeCaught(r) == r = "ImportError"

\* result == 0
PortAvailableInverted(c) == c = "connected"

\* result != 0, and False when the socket layer raises
PortAvailable(c) ==
    CASE c = "connected"    -> FALSE
      [] c = "refused"      -> TRUE
      [] c = "timeout"      -> TRUE
      [] c = "socket_error" -> FALSE

\* getattr(app_module, 'app', None)
AppLookup(shape) == IF shape = "has_app" THEN "app" ELSE "None"

\* the None test left out
AppMissingNever(a) == FALSE

\* "if app is None"
AppMissing(a) == a = "None"

\* port left at its default in the run call
RunArgsDefaultPort(p) == [debug |-> TRUE, host |-> "0.0.0.0", port |-> DefaultPort,
                          use_reloader |-> FALSE]

\* app.run(debug=True, host='0.0.0.0', port=port, use_reloader=False)
RunArgs(p) == [debug |-> TRUE, host |-> "0.0.0.0", port |-> p,
               use_reloader |-> FALSE]

\* f'http://localhost:{port}'
Url(p) == <<"http://localhost:", p>>

\* the opener is a daemon thread: it dies with the process
Killed(b) == IF b = "sleeping" THEN "killed" ELSE b

\* positions of main inside the try block
InTry == {"exec_module", "thread_start", "run", "serving"}

\* positions of main before the try block
BeforeTry == {"main_start", "check_deps", "prompt", "install", "pip", "probe",
              "find_call", "find_loop", "port", "alt_ports", "launch"}

\* main returns or an exception leaves it: the process ends
Finish(label, msgs, e) ==
    /\ pc' = "done"
    /\ outcome' = label
    /\ console' = console \o msgs
    /\ exc' = e
    /\ browser' = Killed(browser)

Continue(next, msgs) ==
    /\ pc' = next
    /\ outcome' = outcome
    /\ console' = console \o msgs
    /\ exc' = exc
    /\ browser' = browser

Propagated(kind) == [kind |-> kind, at |-> pc, handler |-> "propagated"]

\* -------------------------------------------------------------------- Init
Defaults ==
    /\ trace = <<>>
    /\ console = <<>>
    /\ outcome = "running"
    /\ exc = NoExc
    /\ depIdx = 1
    /\ missing_packages = <<>>
    /\ importLog = <<>>
    /\ depsOk = "unset"
    /\ answer = <<>>
    /\ installOutcome = "none"
    /\ installResult = "unset"
    /\ subprocessCalls = 0
    /\ probeOutcome = "none"
    /\ model_available = "unset"
    /\ findIdx = 1
    /\ checked = <<>>
    /\ app_file = "unset"
    /\ findResults = <<>>
    /\ port = 0
    /\ altIdx = 1
    /\ probed = <<>>
    /\ portTaken = FALSE
    /\ app = "unset"
    /\ browser = "not_started"
    /\ browserUrl = <<>>
    /\ runCalls = <<>>

Init ==
    /\ pc = "main_start"
    /\ fs \in SUBSET Files
    /\ ret = "none"
    /\ Defaults

\* ------------------------------------------------------ dependency check
MainStart ==
    /\ pc = "main_start"
    /\ trace' = Append(trace, "check_dependencies")
    /\ Continue("check_deps", <<"banner">>)
    /\ UNCHANGED <<fs, depVars, answer, installVars, probeVars, findVars,
                   portVars, launchVars>>

\* missing_packages.insert(0, package)
MissingAddFront(m, p) == <<p>> \o m

\* missing_packages.append(package)
MissingAdd(m, p) == Append(m, p)

ImportPackage ==
    /\ pc = "check_deps"
    /\ depIdx <= Len(required_packages)
    /\ \E r \in {"ok", "ImportError"} :
          /\ importLog' = Append(importLog, r)
          /\ missing_packages' =
                 IF r = "ImportError"
                 THEN MissingAdd(missing_packages, required_packages[depIdx])
                 ELSE missing_packages
    /\ depIdx' = depIdx + 1
    /\ Continue("check_deps", <<>>)
    /\ UNCHANGED <<fs, trace, depsOk, answer, installVars, probeVars, findVars,
                   portVars, launchVars>>

ImportPackageRaises ==
    /\ pc = "check_deps"
    /\ depIdx <= Len(required_packages)
    /\ importLog' = Append(importLog, "OtherError")
    /\ Finish("uncaught", <<>>, Propagated("Exception"))
    /\ UNCHANGED <<fs, trace, depIdx, missing_packages, depsOk, answer,
                   installVars, probeVars, findVars, portVars, launchVars>>

\* check_dependencies returns; in main its locals are gone at line 90, the
\* caller that only calls check_dependencies keeps them for inspection
CheckDepsReturn ==
    /\ pc = "check_deps"
    /\ depIdx > Len(required_packages)
    /\ depsOk' = IF missing_packages = <<>> THEN "True" ELSE "False"
    /\ IF ret = "harness"
       THEN /\ UNCHANGED <<missing_packages, importLog, depIdx>>
            /\ Continue("deps_returned",
                        IF missing_packages = <<>> THEN <<"deps_ok">>
                        ELSE <<"deps_missing">>)
       ELSE /\ missing_packages' = <<>>
            /\ importLog' = <<>>
            /\ depIdx' = 1
            /\ IF missing_packages = <<>>
               THEN Continue("probe", <<"deps_ok">>)
               ELSE Continue("prompt", <<"deps_missing", "prompt">>)
    /\ UNCHANGED <<fs, trace, answer, installVars, probeVars, findVars,
                   portVars, launchVars>>

PromptAnswer ==
    /\ pc = "prompt"
    /\ trace' = Append(trace, "input")
    /\ \E a \in Answers :
          /\ answer' = a
          /\ IF AcceptsInstall(a)
             THEN Continue("install", <<>>)
             ELSE Finish("deps_abort", <<"manual_install">>, exc)
    /\ UNCHANGED <<fs, depVars, installVars, probeVars, findVars, portVars,
                   launchVars>>

PromptEOF ==
    /\ pc = "prompt"
    /\ trace' = Append(trace, "input")
    /\ Finish("uncaught", <<>>, Propagated("Exception"))
    /\ UNCHANGED <<fs, depVars, answer, installVars, probeVars, findVars,
                   portVars, launchVars>>

\* ------------------------------------------------------------ installer
InstallBegin ==
    /\ pc = "install"
    /\ trace' = Append(trace, "install_dependencies")
    /\ IF ManifestExists(fs)
       THEN /\ Continue("pip", <<"installing">>)
            /\ UNCHANGED installVars
       ELSE /\ installOutcome' = "manifest_missing"
            /\ installResult' = "False"
            /\ subprocessCalls' = subprocessCalls
            /\ IF ContinuesAfterInstall("False")
               THEN Continue("probe", <<"installing", "no_requirements">>)
               ELSE Finish("install_failed",
                           <<"installing", "no_requirements">>, exc)
    /\ UNCHANGED <<fs, depVars, answer, probeVars, findVars, portVars,
                   launchVars>>

PipRun ==
    /\ pc = "pip"
    /\ subprocessCalls' = subprocessCalls + 1
    /\ \E o \in PipOutcomes :
          /\ installOutcome' = o
          /\ installResult' = PipResult(o)
          /\ IF ContinuesAfterInstall(PipResult(o))
             THEN Continue("probe", <<PipMessage(o)>>)
             ELSE Finish("install_failed", <<PipMessage(o)>>, exc)
    /\ UNCHANGED <<fs, trace, depVars, answer, probeVars, findVars, portVars,
                   launchVars>>

\* ------------------------------------------------------ capability probe
CapabilityProbe ==
    /\ pc = "probe"
    /\ trace' = Append(trace, "capability_probe")
    /\ \E r \in ImportOutcomes :
          /\ r = "ok" \/ ProbeCaught(r)
          /\ probeOutcome' = r
          /\ model_available' = IF r = "ok" THEN "True" ELSE "False"
          /\ Continue("find_call",
                      IF r = "ok" THEN <<"model_ok">>
                      ELSE <<"model_unavailable", "simulate_mode">>)
    /\ UNCHANGED <<fs, depVars, answer, installVars, findVars, portVars,
                   launchVars>>

CapabilityProbeRaises ==
    /\ pc = "probe"
    /\ trace' = Append(trace, "capability_probe")
    /\ \E r \in ImportOutcomes :
          /\ r # "ok" /\ ~ProbeCaught(r)
          /\ probeOutcome' = r
          /\ Finish("uncaught", <<>>, Propagated("Exception"))
    /\ UNCHANGED <<fs, depVars, answer, installVars, model_available, findVars,
                   portVars, launchVars>>

\* -------------------------------------------------------- find_app_file
\* main without the early return on a missing entry point
FindExitNoReturn(result) ==
    IF ret = "main"
    THEN /\ app_file' = result
         /\ findResults' = findResults
         /\ Continue("port", IF result = "None" THEN <<"no_app_file">>
                             ELSE <<"found_app_file">>)
    ELSE /\ app_file' = app_file
         /\ findResults' = Append(findResults, result)
         /\ Continue("harness", <<>>)

\* find_app_file returns to its caller: main (lines 112-117) or the
\* repeated caller
FindExit(result) ==
    IF ret = "main"
    THEN /\ app_file' = result
         /\ findResults' = findResults
         /\ IF result = "None"
            THEN Finish("entry_not_found", <<"no_app_file">>, exc)
            ELSE Continue("port", <<"found_app_file">>)
    ELSE /\ app_file' = app_file
         /\ findResults' = Append(findResults, result)
         /\ Continue("harness", <<>>)

FindCall ==
    /\ pc = "find_call"
    /\ trace' = Append(trace, "find_app_file")
    /\ ret' = "main"
    /\ findIdx' = 1
    /\ checked' = <<>>
    /\ Continue("find_loop", <<>>)
    /\ UNCHANGED <<fs, depVars, answer, installVars, probeVars, app_file,
                   findResults, portVars, launchVars>>

FindHit ==
    /\ pc = "find_loop"
    /\ findIdx <= Len(possible_paths)
    /\ PathExists(possible_paths[findIdx], fs)
    /\ checked' = Append(checked, possible_paths[findIdx])
    /\ FindExit(possible_paths[findIdx])
    /\ UNCHANGED <<fs, trace, depVars, answer, installVars, probeVars, ret,
                   findIdx, portVars, launchVars>>

FindMiss ==
    /\ pc = "find_loop"
    /\ findIdx <= Len(possible_paths)
    /\ ~PathExists(possible_paths[findIdx], fs)
    /\ checked' = Append(checked, possible_paths[findIdx])
    /\ findIdx' = findIdx + 1
    /\ Continue("find_loop", <<>>)
    /\ UNCHANGED <<fs, trace, depVars, answer, installVars, probeVars, ret,
                   app_file, findResults, portVars, launchVars>>

FindNone ==
    /\ pc = "find_loop"
    /\ findIdx > Len(possible_paths)
    /\ FindExit("None")
    /\ UNCHANGED <<fs, trace, depVars, answer, installVars, probeVars, ret,
                   findIdx, checked, portVars, launchVars>>

\* a caller that calls find_app_file repeatedly on the same directory
HarnessCall ==
    /\ pc = "harness"
    /\ Len(findResults) < MaxCalls
    /\ ret' = "harness"
    /\ findIdx' = 1
    /\ checked' = <<>>
    /\ Continue("find_loop", <<>>)
    /\ UNCHANGED <<fs, trace, depVars, answer, installVars, probeVars, app_file,
                   findResults, portVars, launchVars>>

\* ----------------------------------------------------- port negotiation
Probe(p, c) == [port |-> p, conn |-> c, avail |-> PortAvailable(c)]

PortProbeFirst ==
    /\ pc = "port"
    /\ trace' = Append(trace, "port_negotiation")
    /\ port' = DefaultPort
    /\ altIdx' = 1
    /\ portTaken' = portTaken
    /\ \E c \in ConnOutcomes :
          /\ probed' = Append(probed, Probe(DefaultPort, c))
          /\ IF PortAvailable(c)
             THEN Continue("launch", <<>>)
             ELSE Continue("alt_ports", <<"port_occupied">>)
    /\ UNCHANGED <<fs, depVars, answer, installVars, probeVars, findVars,
                   launchVars>>

PortProbeAlt ==
    /\ pc = "alt_ports"
    /\ altIdx <= Len(alt_ports)
    /\ portTaken' = portTaken
    /\ \E c \in ConnOutcomes :
          /\ probed' = Append(probed, Probe(alt_ports[altIdx], c))
          /\ IF PortAvailable(c)
             THEN /\ port' = alt_ports[altIdx]
                  /\ altIdx' = altIdx
                  /\ Continue("launch", <<"alt_port">>)
             ELSE /\ port' = port
                  /\ altIdx' = altIdx + 1
                  /\ Continue("alt_ports", <<>>)
    /\ UNCHANGED <<fs, trace, depVars, answer, installVars, probeVars, findVars,
                   launchVars>>

PortExhausted ==
    /\ pc = "alt_ports"
    /\ altIdx > Len(alt_ports)
    /\ Finish("port_exhausted", <<"no_free_port">>, exc)
    /\ UNCHANGED <<fs, trace, depVars, answer, installVars, probeVars, findVars,
                   portVars, launchVars>>

\* ---------------------------------------------------- module load, launch
Launch ==
    /\ pc = "launch"
    /\ trace' = Append(trace, "launch")
    /\ Continue("exec_module", <<"starting_server">>)
    /\ UNCHANGED <<fs, depVars, answer, installVars, probeVars, findVars,
                   portVars, launchVars>>

\* the except clauses of lines 178 and 180, tried in order; BaseException
\* subclasses other than KeyboardInterrupt match neither
HandlerOfCatchAllFirst(kind) == "except_Exception"

HandlerOf(kind) ==
    CASE kind = "KeyboardInterrupt" -> "except_KeyboardInterrupt"
      [] kind = "Exception"         -> "except_Exception"
      [] OTHER                      -> "propagated"

Handled(kind) == [kind |-> kind, at |-> pc, handler |-> HandlerOf(kind)]

\* the generic report cut down to its first line
HandlerMessagesNoGuidance(h) ==
    CASE h = "except_KeyboardInterrupt" -> <<"stopped_by_user">>
      [] h = "except_Exception"         -> <<"launch_failed">>
      [] OTHER                          -> <<>>

\* what each handler prints (lines 179, 181-186)
HandlerMessages(h) ==
    CASE h = "except_KeyboardInterrupt" -> <<"stopped_by_user">>
      [] h = "except_Exception"         -> <<"launch_failed", "troubleshooting">>
      [] OTHER                          -> <<>>

HandlerOutcome(h) ==
    CASE h = "except_KeyboardInterrupt" -> "stopped_interrupted"
      [] h = "except_Exception"         -> "launch_failed"
      [] OTHER                          -> "uncaught"

\* a handler that goes back to port negotiation after a launch failure
AfterHandlerRetry(h) == IF h = "except_Exception" THEN "port" ELSE "done"

\* where main goes after a handler: both fall off the end of main
AfterHandler(h) == "done"

\* an exception of class kind raised inside the try block at step where
RaiseInTry(kind, where) ==
    /\ pc' = AfterHandler(HandlerOf(kind))
    /\ outcome' = HandlerOutcome(HandlerOf(kind))
    /\ console' = console \o HandlerMessages(HandlerOf(kind))
    /\ exc' = [Handled(kind) EXCEPT !.at = where]
    /\ browser' = Killed(browser)

ExecModule ==
    /\ pc = "exec_module"
    /\ trace' = Append(trace, "exec_module")
    /\ \E shape \in ModuleShapes :
          /\ app' = AppLookup(shape)
          /\ IF AppMissing(AppLookup(shape))
             THEN Finish("app_not_found", <<"app_object_not_found">>, exc)
             ELSE Continue("thread_start", <<"server_started">>)
    /\ UNCHANGED <<fs, depVars, answer, installVars, probeVars, findVars,
                   portVars, browserUrl, runCalls>>

ExecModuleRaises ==
    /\ pc = "exec_module"
    /\ trace' = Append(trace, "exec_module")
    /\ \E kind \in RaisedKinds : RaiseInTry(kind, "exec_module")
    /\ UNCHANGED <<fs, depVars, answer, installVars, probeVars, findVars,
                   portVars, launchVars>>

ThreadStart ==
    /\ pc = "thread_start"
    /\ trace' = Append(trace, "thread_start")
    /\ pc' = "run"
    /\ browser' = "sleeping"
    /\ UNCHANGED <<fs, console, outcome, exc, depVars, answer, installVars,
                   probeVars, findVars, portVars, launchVars>>

ThreadStartRaises ==
    /\ pc = "thread_start"
    /\ trace' = Append(trace, "thread_start")
    /\ RaiseInTry("Exception", "thread_start")
    /\ UNCHANGED <<fs, depVars, answer, installVars, probeVars, findVars,
                   portVars, launchVars>>

\* main joining the opener (or calling it in place) before app.run
OpenerBlocksMainJoined(b) == b = "sleeping"

\* the opener thread is started and never joined: line 176 does not wait
OpenerBlocksMain(b) == FALSE

RunCall ==
    /\ pc = "run"
    /\ ~OpenerBlocksMain(browser)
    /\ trace' = Append(trace, "run")
    /\ runCalls' = Append(runCalls, RunArgs(port))
    /\ Continue("serving", <<>>)
    /\ UNCHANGED <<fs, depVars, answer, installVars, probeVars, findVars,
                   portVars, app, browserUrl>>

\* the server bound the port, served and stopped
RunReturns ==
    /\ pc = "serving"
    /\ ~portTaken
    /\ Finish("stopped_normal", <<>>, exc)
    /\ UNCHANGED <<fs, trace, depVars, answer, installVars, probeVars, findVars,
                   portVars, launchVars>>

\* app.run raises: the bind fails (always so when the port was taken), or the
\* server faults after a successful bind
RunRaises ==
    /\ pc = "serving"
    /\ \E why \in RunFailures, kind \in RaisedKinds :
          /\ portTaken => why = "bind_failed"
          /\ RaiseInTry(kind, why)
    /\ UNCHANGED <<fs, trace, depVars, answer, installVars, probeVars, findVars,
                   portVars, launchVars>>

\* the probe holds no lock: between the probe of the selected port and the
\* bind inside app.run another process can bind it
OtherProcessTakesPort ==
    /\ pc \in {"launch", "exec_module", "thread_start", "run"}
    /\ ~portTaken
    /\ portTaken' = TRUE
    /\ UNCHANGED <<pc, fs, trace, console, outcome, exc, depVars, answer,
                   installVars, probeVars, findVars, port, altIdx, probed,
                   browser, launchVars>>

\* ------------------------------------------------------- user interrupt
InterruptInTry ==
    /\ pc \in InTry
    /\ RaiseInTry("KeyboardInterrupt", pc)
    /\ UNCHANGED <<fs, trace, depVars, answer, installVars, probeVars, findVars,
                   portVars, launchVars>>

InterruptBeforeTry ==
    /\ pc \in BeforeTry
    /\ Finish("uncaught", <<>>, Propagated("KeyboardInterrupt"))
    /\ UNCHANGED <<fs, trace, depVars, answer, installVars, probeVars, findVars,
                   portVars, launchVars>>

\* -------------------------------------------------- browser-opener thread
BrowserOpen ==
    /\ browser = "sleeping"
    /\ pc # "done"
    /\ browserUrl' = Url(port)
    /\ \E r \in BrowserOutcomes :
          IF r = "ok"
          THEN /\ browser' = "opened"
               /\ console' = Append(console, "browser_opened")
          ELSE /\ browser' = "failed"
               /\ console' = Append(console, "browser_failed")
    /\ UNCHANGED <<pc, fs, trace, outcome, exc, depVars, answer, installVars,
                   probeVars, findVars, portVars, app, runCalls>>

\* ------------------------------------------------------- specifications
Next ==
    \/ MainStart
    \/ ImportPackage
    \/ ImportPackageRaises
    \/ CheckDepsReturn
    \/ PromptAnswer
    \/ PromptEOF
    \/ InstallBegin
    \/ PipRun
    \/ CapabilityProbe
    \/ CapabilityProbeRaises
    \/ FindCall
    \/ FindHit
    \/ FindMiss
    \/ FindNone
    \/ PortProbeFirst
    \/ PortProbeAlt
    \/ PortExhausted
    \/ Launch
    \/ ExecModule
    \/ ExecModuleRaises
    \/ ThreadStart
    \/ ThreadStartRaises
    \/ RunCall
    \/ RunReturns
    \/ RunRaises
    \/ OtherProcessTakesPort
    \/ InterruptInTry
    \/ InterruptBeforeTry
    \/ BrowserOpen

Spec == Init /\ [][Next]_vars

InitFind ==
    /\ pc = "harness"
    /\ fs \in SUBSET Files
    /\ ret = "none"
    /\ Defaults

NextFind ==
    \/ HarnessCall
    \/ FindHit
    \/ FindMiss
    \/ FindNone

SpecFind == InitFind /\ [][NextFind]_vars

\* check_dependencies alone, called once by a caller that inspects its result
InitDeps ==
    /\ pc = "check_deps"
    /\ fs = {}
    /\ Defaults
    /\ ret = "harness"

NextDeps ==
    \/ ImportPackage
    \/ ImportPackageRaises
    \/ CheckDepsReturn

SpecDeps == InitDeps /\ [][NextDeps]_vars

\* main when every external call returns and the operator answers: the main
\* thread keeps taking its next step until app.run is entered or main ends
MainStep ==
    \/ MainStart
    \/ ImportPackage
    \/ ImportPackageRaises
    \/ CheckDepsReturn
    \/ PromptAnswer
    \/ PromptEOF
    \/ InstallBegin
    \/ PipRun
    \/ CapabilityProbe
    \/ CapabilityProbeRaises
    \/ FindCall
    \/ FindHit
    \/ FindMiss
    \/ FindNone
    \/ PortProbeFirst
    \/ PortProbeAlt
    \/ PortExhausted
    \/ Launch
    \/ ExecModule
    \/ ExecModuleRaises
    \/ ThreadStart
    \/ ThreadStartRaises
    \/ RunCall

FairSpec == Spec /\ WF_vars(MainStep)

TypeOK ==
    /\ pc \in BeforeTry \cup InTry \cup {"done", "harness", "deps_returned"}
    /\ portTaken \in BOOLEAN
    /\ fs \subseteq Files
    /\ depsOk \in {"unset", "True", "False"}
    /\ installResult \in {"unset", "True", "False"}
    /\ model_available \in {"unset", "True", "False"}
    /\ port \in {0, DefaultPort} \cup {alt_ports[i] : i \in DOMAIN alt_ports}
    /\ browser \in {"not_started", "sleeping", "opened", "failed", "killed"}
    /\ Len(runCalls) <= 1

\* ================================================================ claims
CandidateOrder == <<7070, 7071, 7072, 7073>>

IsPrefix(s, t) == Len(s) <= Len(t) /\ \A i \in DOMAIN s : s[i] = t[i]

ProbedPorts == [i \in DOMAIN probed |-> probed[i].port]

AllOccupied ==
    Len(probed) = Len(CandidateOrder) /\ \A i \in DOMAIN probed : ~probed[i].avail

Count(step) == Cardinality({i \in DOMAIN trace : trace[i] = step})

PastDependencyStep ==
    \/ pc \in {"probe", "find_call", "find_loop", "port", "alt_ports", "launch"}
    \/ pc \in InTry
    \/ \E s \in {"capability_probe", "find_app_file", "port_negotiation",
                 "launch", "exec_module", "thread_start", "run"} : InTrace(s)

\* C1: the ports are probed in the order 7070, 7071, 7072, 7073, every probe
\* before the last reported the port occupied, the port selected (and passed
\* to run) is the one the last probe reported available; when all four are
\* reported occupied nothing is selected: no module load, no browser opener,
\* no run.
C1_FirstFreePortSelected ==
    /\ IsPrefix(ProbedPorts, CandidateOrder)
    /\ \A i \in 1..(Len(probed) - 1) : ~probed[i].avail
    /\ InTrace("launch") =>
          /\ probed # <<>>
          /\ Last(probed).avail
          /\ port = Last(probed).port
    /\ \A k \in DOMAIN runCalls :
          /\ Last(probed).avail
          /\ runCalls[k].port = Last(probed).port
    /\ AllOccupied =>
          /\ pc \in {"alt_ports", "done"}
          /\ ~InTrace("launch")
          /\ ~InTrace("exec_module")
          /\ ~InTrace("thread_start")
          /\ app = "unset"
          /\ browser = "not_started"
          /\ runCalls = <<>>
          /\ (pc = "done" /\ exc = NoExc) => Last(console) = "no_free_port"

C1_Witness ==
    /\ InTrace("run")
    /\ Len(probed) = 3
    /\ ~probed[1].avail /\ ~probed[2].avail /\ probed[3].avail
    /\ port = 7072

\* C2: main is past the dependency step only if check_dependencies returned
\* True or install_dependencies was run and returned True; the dependency
\* check runs once, before any install.
C2_DependencyGate ==
    /\ PastDependencyStep =>
          \/ depsOk = "True"
          \/ InTrace("install_dependencies") /\ installResult = "True"
    /\ Count("check_dependencies") <= 1
    /\ InTrace("install_dependencies") =>
          \A i \in DOMAIN trace :
              trace[i] = "check_dependencies" => i = 1

C2_Witness ==
    /\ InTrace("run")
    /\ depsOk = "False"
    /\ installResult = "True"
    /\ Count("check_dependencies") = 1

Rank(step) ==
    CASE step = "check_dependencies"   -> 1
      [] step = "input"                -> 2
      [] step = "install_dependencies" -> 3
      [] step = "capability_probe"     -> 4
      [] step = "find_app_file"        -> 5
      [] step = "port_negotiation"     -> 6
      [] step = "launch"               -> 7
      [] step = "exec_module"          -> 8
      [] step = "thread_start"         -> 9
      [] step = "run"                  -> 10

C4_ProbeNeverFatal ==
    probeOutcome \notin {"none", "ok"} =>
        /\ model_available = "False"
        /\ ~(exc.kind = "Exception" /\ exc.at = "probe"
             /\ exc.handler = "propagated")

\* C5: when the loaded module has no 'app' (or has it as None) main prints the
\* "app object not found" message and returns; the browser opener is never
\* started and run is never called.
C5_MissingAppObject ==
    app = "None" =>
        /\ pc = "done"
        /\ Last(console) = "app_object_not_found"
        /\ ~InTrace("thread_start")
        /\ browser = "not_started"
        /\ browserUrl = <<>>
        /\ ~InTrace("run")
        /\ runCalls = <<>>

C5_Witness ==
    /\ app = "None"
    /\ pc = "done"
    /\ InTrace("exec_module")

C6_State ==
    /\ Len(runCalls) <= 1
    /\ (pc = "serving" \/ InTrace("run")) =>
          /\ Len(runCalls) = 1
          /\ Last(probed).avail
          /\ runCalls[1] = [debug |-> TRUE, host |-> "0.0.0.0",
                            port |-> Last(probed).port,
                            use_reloader |-> FALSE]
    /\ browser \in {"opened", "failed"} =>
          browserUrl = <<"http://localhost:", Last(probed).port>>
    /\ browser \notin {"opened", "failed"} => browserUrl = <<>>

\* C6: run is called exactly once, with debug on, host 0.0.0.0, reload off and
\* the negotiated port; the browser opener requests http://localhost:<that
\* port>; port does not change once the opener thread is started.
C6_LaunchArguments ==
    /\ []C6_State
    /\ [][browser # "not_started" => port' = port]_vars

C6_Witness ==
    /\ Len(probed) = 3
    /\ ~probed[1].avail /\ ~probed[2].avail /\ probed[3].avail
    /\ runCalls = <<[debug |-> TRUE, host |-> "0.0.0.0", port |-> 7072,
                     use_reloader |-> FALSE]>>
    /\ browser = "opened"
    /\ browserUrl = <<"http://localhost:", 7072>>
    /\ probeOutcome = "ImportError"

Answered == InTrace("input") /\ exc.at # "prompt"

\* C7: with a missing package and an answer other than 'y' or 'Y', main prints
\* the manual-install instruction and returns; no installer, capability
\* probe, entry-point search, port probe, module load or browser opener.
C7_DeclineAborts ==
    (depsOk = "False" /\ Answered /\ answer \notin {<<"y">>, <<"Y">>}) =>
        /\ pc = "done"
        /\ Last(console) = "manual_install"
        /\ trace = <<"check_dependencies", "input">>
        /\ installOutcome = "none"
        /\ subprocessCalls = 0
        /\ probeOutcome = "none"
        /\ checked = <<>>
        /\ app_file = "unset"
        /\ probed = <<>>
        /\ app = "unset"
        /\ browser = "not_started"
        /\ runCalls = <<>>

C7_Witness ==
    /\ depsOk = "False"
    /\ Answered
    /\ answer = <<"y", "e", "s">>
    /\ Manifest \notin fs
    /\ Last(console) = "manual_install"

\* C8: install_dependencies with no requirements.txt returns False and never
\* invokes the pip subprocess.
C8_NoManifestNoSubprocess ==
    (InTrace("install_dependencies") /\ Manifest \notin fs) =>
        /\ installOutcome = "manifest_missing"
        /\ installResult = "False"
        /\ subprocessCalls = 0

C8_Witness ==
    /\ InTrace("install_dependencies")
    /\ Manifest \notin fs
    /\ installResult = "False"
    /\ pc = "done"

\* C9: manifest missing, nonzero exit and execution error all make
\* install_dependencies return False without raising, and main returns right
\* after the installer: no capability probe, entry-point search, port probe
\* or launch.
C9_InstallFailuresUniform ==
    installOutcome \in {"manifest_missing", "nonzero", "exec_error"} =>
        /\ installResult = "False"
        /\ exc = NoExc
        /\ pc = "done"
        /\ Last(trace) = "install_dependencies"
        /\ probeOutcome = "none"
        /\ checked = <<>>
        /\ app_file = "unset"
        /\ probed = <<>>
        /\ app = "unset"
        /\ browser = "not_started"
        /\ runCalls = <<>>

C9_Witness ==
    /\ installOutcome = "nonzero"
    /\ installResult = "False"
    /\ subprocessCalls = 1
    /\ pc = "done"

FirstExisting(f) ==
    IF "app.py" \in f THEN "app.py"
    ELSE IF "application.py" \in f THEN "application.py"
    ELSE IF "main.py" \in f THEN "main.py"
    ELSE "None"

ExpectedChecked(f) ==
    IF "app.py" \in f THEN <<"app.py">>
    ELSE IF "application.py" \in f THEN <<"app.py", "application.py">>
    ELSE <<"app.py", "application.py", "main.py">>

\* C10: find_app_file returns the first existing of app.py, application.py,
\* main.py, None when none exists; repeated calls on the same directory return
\* the same value; no candidate after the first match is checked.
C10_FirstMatchWins ==
    /\ \A i \in DOMAIN findResults : findResults[i] = FirstExisting(fs)
    /\ \A i, j \in DOMAIN findResults : findResults[i] = findResults[j]
    /\ IsPrefix(checked, ExpectedChecked(fs))
    /\ (pc = "harness" /\ findResults # <<>>) => checked = ExpectedChecked(fs)

C10_Witness ==
    /\ pc = "harness"
    /\ {"app.py", "main.py"} \subseteq fs
    /\ Len(findResults) >= 2
    /\ findResults[1] = "app.py"
    /\ findResults[2] = "app.py"
    /\ checked = <<"app.py">>

InConsole(m) == \E i \in DOMAIN console : console[i] = m

LaunchSteps == {"exec_module", "bind_failed", "server_fault"}

\* C11: a user interrupt during the blocking run call ends the run with the
\* "stopped by user" message and never with the launch-failure report.
C11_InterruptWhileServing ==
    (exc.kind = "KeyboardInterrupt" /\ exc.at = "serving") =>
        /\ pc = "done"
        /\ exc.handler = "except_KeyboardInterrupt"
        /\ Last(console) = "stopped_by_user"
        /\ ~InConsole("launch_failed")
        /\ ~InConsole("troubleshooting")

C11_Witness ==
    /\ exc.kind = "KeyboardInterrupt"
    /\ exc.at = "serving"
    /\ InTrace("run")
    /\ Last(console) = "stopped_by_user"

\* C12: a user interrupt at any step of main is caught by main's handler and
\* turned into the clean shutdown message.
C12_InterruptCaughtAtAnyStep ==
    exc.kind = "KeyboardInterrupt" =>
        /\ exc.handler = "except_KeyboardInterrupt"
        /\ Last(console) = "stopped_by_user"

\* C13 as stated: every exception other than a user interrupt raised by the
\* module's top-level code or by run is caught in main and reported with the
\* troubleshooting guidance.
C13_AnyExceptionCaught ==
    (exc.kind \notin {"none", "KeyboardInterrupt"} /\ exc.at \in LaunchSteps) =>
        /\ exc.handler = "except_Exception"
        /\ Last(console) = "troubleshooting"

\* C13 amended: an exception of class Exception raised by the module's
\* top-level code or by run is caught in main, reported with the
\* troubleshooting guidance and ends the run; a SystemExit raised there leaves
\* main uncaught and unreported; either way the module is loaded once, run is
\* called at most once and the ports are negotiated once.
C13_ExceptionCaughtOnce ==
    (exc.kind \notin {"none", "KeyboardInterrupt"} /\ exc.at \in LaunchSteps) =>
        /\ pc = "done"
        /\ Count("exec_module") = 1
        /\ Count("port_negotiation") = 1
        /\ Len(runCalls) <= 1
        /\ Last(probed).port = port
        /\ exc.kind = "Exception" =>
              /\ exc.handler = "except_Exception"
              /\ Len(console) >= 2
              /\ console[Len(console) - 1] = "launch_failed"
              /\ Last(console) = "troubleshooting"
        /\ exc.kind = "SystemExit" =>
              /\ exc.handler = "propagated"
              /\ ~InConsole("troubleshooting")

C13_Witness ==
    /\ exc.kind = "Exception"
    /\ exc.at = "server_fault"
    /\ Len(runCalls) = 1
    /\ Last(console) = "troubleshooting"

\* C14: a step of the browser opener (open succeeded or raised) changes
\* nothing of the main thread; the main thread's next step never waits for the
\* opener; an open error is logged by the opener.
C14_OpenerIndependent ==
    /\ [][(browser' # browser /\ browser' \in {"opened", "failed"}) =>
             UNCHANGED <<pc, trace, outcome, exc, runCalls, port, app>>]_vars
    /\ [](pc = "run" => ENABLED RunCall)
    /\ [](pc = "serving" =>
             /\ ENABLED InterruptInTry
             /\ ENABLED RunRaises
             /\ ~portTaken => ENABLED RunReturns)
    /\ [](browser = "failed" => InConsole("browser_failed"))
    /\ [](exc.at \notin {"browser", "open_browser"})

C14_Witness ==
    /\ browser = "failed"
    /\ pc = "serving"
    /\ exc = NoExc
    /\ Len(runCalls) = 1

RECURSIVE FailedNames(_)
FailedNames(log) ==
    IF log = <<>> THEN <<>>
    ELSE LET n == Len(log)
             rest == FailedNames(SubSeq(log, 1, n - 1))
             names == <<"flask", "flask_cors", "pandas", "numpy", "plotly">>
         IN  IF log[n] = "ImportError" THEN Append(rest, names[n]) ELSE rest

BoolValue(b) == [type |-> "bool", flag |-> b, items |-> <<>>]

ListValue(l) == [type |-> "list", flag |-> FALSE, items |-> l]

\* C15 as stated: check_dependencies returns the subset of names that failed
\* to import, in order.
C15_ReturnsMissingSubset ==
    pc = "deps_returned" =>
        BoolValue(depsOk = "True") = ListValue(FailedNames(importLog))

\* C15 amended: check_dependencies collects exactly the names that failed to
\* import, in order, and returns a boolean: True when that list is empty,
\* False otherwise; a missing name never raises.
C15_CollectsMissingSubset ==
    /\ missing_packages = FailedNames(importLog)
    /\ pc = "deps_returned" =>
          /\ Len(importLog) = 5
          /\ depsOk = IF FailedNames(importLog) = <<>> THEN "True" ELSE "False"
          /\ InConsole("deps_missing") <=> FailedNames(importLog) # <<>>
    /\ (\A i \in DOMAIN importLog : importLog[i] \in {"ok", "ImportError"}) =>
          exc = NoExc

C15_Witness ==
    /\ pc = "deps_returned"
    /\ importLog = <<"ImportError", "ok", "ImportError", "ok", "ok">>
    /\ missing_packages = <<"flask", "pandas">>
    /\ depsOk = "False"

\* C16: when another process takes the selected port after its probe reported
\* it free, the bind failure ends the run as a failure (the launch-failure
\* report when it reaches main as an Exception); ports are negotiated once,
\* run is called once, no other port is used.
C16_BindRaceNoRetry ==
    /\ Count("port_negotiation") <= 1
    /\ Len(runCalls) <= 1
    /\ portTaken =>
          /\ probed # <<>>
          /\ Last(probed).avail
          /\ Last(probed).port = port
          /\ outcome # "stopped_normal"
          /\ \A k \in DOMAIN runCalls : runCalls[k].port = port
    /\ (portTaken /\ exc.at \in {"bind_failed", "server_fault"}) =>
          /\ pc = "done"
          /\ exc.at = "bind_failed"
          /\ Len(runCalls) = 1
          /\ outcome \in {"launch_failed", "uncaught"}
          /\ exc.kind = "Exception" =>
                /\ outcome = "launch_failed"
                /\ Last(console) = "troubleshooting"

C16_Witness ==
    /\ portTaken
    /\ exc.kind = "Exception"
    /\ exc.at = "bind_failed"
    /\ outcome = "launch_failed"
    /\ Len(probed) = 2
    /\ port = 7071

\* C18: a probe whose connection succeeded reports the port occupied; a probe
\* whose connection was refused or timed out reports it available.
C18_ProbeResult ==
    \A i \in DOMAIN probed :
        /\ probed[i].conn = "connected" => ~probed[i].avail
        /\ probed[i].conn \in {"refused", "timeout"} => probed[i].avail

C18_Witness ==
    /\ Len(probed) = 3
    /\ probed[1].conn = "connected" /\ ~probed[1].avail
    /\ probed[2].conn = "connected" /\ ~probed[2].avail
    /\ probed[3].conn = "timeout" /\ probed[3].avail

\* C19: the opener thread is started, and a browser open requested, only
\* after an entry point was found, a port selected, the module loaded and the
\* app object found; no run that ends through a dependency abort, an install
\* failure, a missing entry point, port exhaustion, a module-load exception or
\* a missing app object ever starts it.
C19_OpenerOnlyAfterLoad ==
    /\ (browser # "not_started" \/ browserUrl # <<>> \/ InTrace("thread_start")) =>
          /\ depsOk = "True" \/ installResult = "True"
          /\ app_file \in {"app.py", "application.py", "main.py"}
          /\ probed # <<>> /\ Last(probed).avail /\ Last(probed).port = port
          /\ InTrace("exec_module")
          /\ exc.at # "exec_module"
          /\ app = "app"
    /\ browserUrl # <<>> => browser \in {"opened", "failed"}
    /\ ( \/ InConsole("manual_install")
         \/ installResult = "False"
         \/ app_file = "None"
         \/ AllOccupied
         \/ exc.at = "exec_module"
         \/ app = "None" ) =>
          /\ browser = "not_started"
          /\ browserUrl = <<>>
          /\ ~InConsole("browser_opened")
          /\ ~InConsole("browser_failed")

C19_Witness ==
    /\ browser = "opened"
    /\ browserUrl # <<>>
    /\ app = "app"
    /\ app_file = "main.py"
    /\ installResult = "True"

\* C20: when every external call returns and the operator answers, main
\* reaches the serving state or returns; at most four probes are made, 7070
\* first and each port at most once, and none after 7070 is reported free.
C20_TerminatesWithinFourProbes ==
    /\ <>(pc \in {"serving", "done"})
    /\ [](/\ Len(probed) <= 4
          /\ \A i, j \in DOMAIN probed : i # j => probed[i].port # probed[j].port
          /\ probed # <<>> => probed[1].port = 7070
          /\ (probed # <<>> /\ probed[1].avail) => Len(probed) = 1)

C20_Witness ==
    /\ pc = "serving"
    /\ Len(probed) = 4
    /\ Last(probed).avail
    /\ port = 7073

====
